---- MODULE Spec2Model ----
(***************************************************************************)
(* Model of package logs (src/logs/logs.go): the process-wide logger       *)
(* registry (mu, logger, once, currentCfg), Init, SetLogFile, get, the     *)
(* emission helpers, With/WithGroup and the colorHandler decorator; of     *)
(* package cli (src/cli/command_line.go): Run and its wrappers, which log  *)
(* through package logs; of package text's list search; and of package     *)
(* fileio's path tests and recursive removal.                              *)
(***************************************************************************)
EXTENDS Integers, Sequences, FiniteSets, TLC

\* ------------------------------------------------------------------ bounds
NumProcs == 2
\* concurrent runs: the number of calls made in all
MaxCalls == 3
\* one caller: the reconfigurations made (Init and SetLogFile calls), the
\* lines written, the scoped loggers taken in a lifecycle run, the loggers
\* derived in a handler run
MaxReconfigs == 2
MaxLines == 1
MaxScoped == 1
MaxDerived == 2
\* package cli: the commands run; package text: the length of a string and
\* of a list of strings
MaxRuns == 1
MaxStrLen == 2
MaxListLen == 2
\* package fileio: the names an entry of a directory can have
MaxNames == 2

Procs == 1..NumProcs

\* ------------------------------------------------------------ slog levels
LevelDebug == -4
LevelInfo == 0
LevelWarn == 4
LevelError == 8

\* A slog.Leveler interface value: <<>> is nil, <<n>> holds level n.
NilLevel == <<>>
Leveler(n) == <<n>>

\* ------------------------------------------------------------- io.Writer
NilWriter == [name |-> "nil", fd |-> 0]
Stdout == [name |-> "stdout", fd |-> 1]
Buf == [name |-> "buf", fd |-> 0]
FileWriter(path, n) == [name |-> path, fd |-> 2 + n]

GoodPaths == {"app.log"}
BadPaths == {"/nodir/app.log"}
SinkNames == {"stdout", "buf"} \cup GoodPaths

\* ------------------------------------------------------- color constants
colorReset == "\\033[0m"
colorRed == "\\033[31m"
colorYellow == "\\033[33m"
colorGreen == "\\033[32m"
colorBlue == "\\033[34m"

\* ----------------------------------------------------------------- Config
Config(level, json, out, color) ==
    [Level |-> level, JSON |-> json, Out |-> out, Color |-> color]

ZeroCfg == Config(NilLevel, FALSE, NilWriter, FALSE)

defaultCfg == Config(Leveler(LevelInfo), FALSE, Stdout, FALSE)

\* Mutant: only a nil Level is replaced.
InitDefaultsLevelOnly(cfg) ==
    IF cfg.Level = NilLevel THEN [cfg EXCEPT !.Level = defaultCfg.Level] ELSE cfg

\* Init, lines 106-111: nil Out and nil Level are replaced by the defaults.
InitDefaults(cfg) ==
    LET c1 == IF cfg.Out = NilWriter THEN [cfg EXCEPT !.Out = defaultCfg.Out] ELSE cfg
    IN  IF c1.Level = NilLevel THEN [c1 EXCEPT !.Level = defaultCfg.Level] ELSE c1

\* ---------------------------------------------------------------- handlers
\* slog.NewTextHandler / slog.NewJSONHandler: a formatter bound to a writer,
\* a level option and the attributes and groups bound so far.
NewTextHandler(w, level) == [type |-> "text", w |-> w, level |-> level, bound |-> <<>>]
NewJSONHandler(w, level) == [type |-> "json", w |-> w, level |-> level, bound |-> <<>>]

\* &colorHandler{h: base}
NewColorHandler(h) == [type |-> "color", h |-> h]

\* Mutant: the color decorator wraps whatever formatter was chosen.
NewHandlerColorAnyFormat(cfg) ==
    LET base == IF cfg.JSON THEN NewJSONHandler(cfg.Out, cfg.Level)
                ELSE NewTextHandler(cfg.Out, cfg.Level)
    IN  IF cfg.Color THEN NewColorHandler(base) ELSE base

\* Init, lines 113-123: the handler chain chosen for a config.
NewHandler(cfg) ==
    IF cfg.JSON
    THEN NewJSONHandler(cfg.Out, cfg.Level)
    ELSE LET base == NewTextHandler(cfg.Out, cfg.Level)
         IN  IF cfg.Color THEN NewColorHandler(base) ELSE base

RECURSIVE Enabled(_, _)
\* Mutant: the color decorator lets every level through.
EnabledColorAlways(h, level) ==
    IF h.type = "color"
    THEN TRUE
    ELSE level >= (IF h.level = NilLevel THEN LevelInfo ELSE h.level[1])

\* Mutant: a record at the threshold itself is dropped.
EnabledAboveOnly(h, level) ==
    IF h.type = "color"
    THEN Enabled(h.h, level)
    ELSE level > (IF h.level = NilLevel THEN LevelInfo ELSE h.level[1])

\* Handler.Enabled: colorHandler delegates (lines 48-50); the slog
\* formatters compare with the level option, Info when the option is nil.
Enabled(h, level) ==
    IF h.type = "color"
    THEN Enabled(h.h, level)
    ELSE level >= (IF h.level = NilLevel THEN LevelInfo ELSE h.level[1])

\* Mutant: the Warn case is tested before the Error case.
LevelColorWarnFirst(level) ==
    IF level >= LevelWarn THEN colorYellow
    ELSE IF level >= LevelError THEN colorRed
    ELSE IF level >= LevelInfo THEN colorGreen
    ELSE colorBlue

\* colorHandler.Handle, lines 56-66: the color band of a level.
LevelColor(level) ==
    IF level >= LevelError THEN colorRed
    ELSE IF level >= LevelWarn THEN colorYellow
    ELSE IF level >= LevelInfo THEN colorGreen
    ELSE colorBlue

\* colorHandler.Handle, lines 54-70: the clone handed to the inner handler.
\* A message is the sequence of its pieces.
ColorRecord(rec) ==
    LET color == LevelColor(rec.level)
    IN  IF color # ""
        THEN [rec EXCEPT !.msg = <<color>> \o rec.msg \o <<colorReset>>]
        ELSE rec

\* The keys of a bound/call-site item sequence as rendered: an attribute
\* item is qualified by the groups opened before it.
RECURSIVE Qualify(_, _)
Qualify(items, prefix) ==
    IF items = <<>> THEN <<>>
    ELSE IF Head(items).group
         THEN Qualify(Tail(items), Append(prefix, Head(items).key))
         ELSE <<Append(prefix, Head(items).key)>> \o Qualify(Tail(items), prefix)

\* Handler.Handle: the writer written to, the line written and r, the
\* caller's record as it is when Handle returns. colorHandler colors a clone
\* (lines 54, 68-70) and hands the clone on; the caller's record is as passed.
RECURSIVE Handle(_, _)
\* Mutant: the formatter writes the call-site attributes ahead of the bound ones.
HandleCallSiteFirst(h, rec) ==
    IF h.type = "color"
    THEN [Handle(h.h, ColorRecord(rec)) EXCEPT !.r = rec]
    ELSE [w |-> h.w,
          line |-> [fmt |-> h.type, level |-> rec.level, msg |-> rec.msg,
                    attrs |-> Qualify(rec.attrs \o h.bound, <<>>)],
          r |-> rec]

\* Mutant: colorHandler writes the codes into the record it was passed and
\* hands that on.
HandleColorsInPlace(h, rec) ==
    IF h.type = "color"
    THEN Handle(h.h, ColorRecord(rec))
    ELSE [w |-> h.w,
          line |-> [fmt |-> h.type, level |-> rec.level, msg |-> rec.msg,
                    attrs |-> Qualify(h.bound \o rec.attrs, <<>>)],
          r |-> rec]

Handle(h, rec) ==
    IF h.type = "color"
    THEN [Handle(h.h, ColorRecord(rec)) EXCEPT !.r = rec]
    ELSE [w |-> h.w,
          line |-> [fmt |-> h.type, level |-> rec.level, msg |-> rec.msg,
                    attrs |-> Qualify(h.bound \o rec.attrs, <<>>)],
          r |-> rec]

RECURSIVE Derive(_, _)
\* Mutant: colorHandler returns the inner handler's derivation unwrapped.
DeriveUnwrapped(h, item) ==
    IF h.type = "color"
    THEN Derive(h.h, item)
    ELSE [h EXCEPT !.bound = Append(@, item)]

\* Handler.WithAttrs / Handler.WithGroup: colorHandler re-wraps the inner
\* handler's derivation (lines 75-81); a formatter appends to what it binds.
Derive(h, item) ==
    IF h.type = "color"
    THEN NewColorHandler(Derive(h.h, item))
    ELSE [h EXCEPT !.bound = Append(@, item)]

\* What With binds (an attribute) and what WithGroup binds (a group).
Attr(k) == [group |-> FALSE, key |-> k]
Group(k) == [group |-> TRUE, key |-> k]
NoItem == [group |-> FALSE, key |-> ""]

\* Mutant: the sink is replaced in defaultCfg, whatever the config read.
SetLogFileCfgFromDefault(cur, f) == [defaultCfg EXCEPT !.Out = f]

\* SetLogFile, lines 90-95: the config handed to Init, from the config read.
SetLogFileCfg(cur, f) ==
    LET cfg == IF cur.Out = NilWriter /\ cur.Level = NilLevel THEN defaultCfg ELSE cur
    IN  [cfg EXCEPT !.Out = f]

\* os.OpenFile(path, O_CREATE|O_WRONLY|O_APPEND): fails for a path that
\* cannot be opened (missing directory, no permission).
OpenFails(path) == path \in BadPaths

\* --------------------------------------------------------- package fileio
\* An error is the chain of its layers, the outermost first; the nil error
\* is the empty chain.
NilErr == <<>>

\* What a path can be: not there, a regular file, a directory, a symbolic
\* link, beneath a directory that may not be searched, beneath a file.
PathKinds == {"missing", "file", "dir", "symlink", "denied", "notdir"}

\* The two copies of Stat/Exists/IsDir/IsFile/isNotExist a build can hold.
Builds == {"fileutil.go", "part_004"}

NoInfo == [IsDir |-> FALSE, IsRegular |-> FALSE]

\* os.Lstat(path): the FileInfo, or a *PathError around the errno.
Lstat(kind) ==
    CASE kind = "missing" -> [fi |-> NoInfo, err |-> <<"PathError", "ENOENT">>]
      [] kind = "denied" -> [fi |-> NoInfo, err |-> <<"PathError", "EACCES">>]
      [] kind = "notdir" -> [fi |-> NoInfo, err |-> <<"PathError", "ENOTDIR">>]
      [] OTHER -> [fi |-> [IsDir |-> kind = "dir", IsRegular |-> kind = "file"],
                   err |-> NilErr]

\* errx.Wrap: fmt.Errorf("%s: %w", msg, err), nil for nil.
Wrap(err) == IF err = NilErr THEN NilErr ELSE <<"wrapError">> \o err

\* os.IsNotExist(err): the error inside a *PathError, *LinkError or
\* *SyscallError, no other wrapper being looked into, is compared.
OsIsNotExist(err) ==
    LET u == IF err # NilErr /\ Head(err) \in {"PathError", "LinkError", "SyscallError"}
             THEN Tail(err) ELSE err
    IN  u = <<"ENOENT">>

\* errors.Is(err, fs.ErrNotExist): every layer is unwrapped.
ErrorsIsNotExist(err) == err # NilErr /\ err[Len(err)] = "ENOENT"

\* errorIs (fileutil.go): target is the nil error, so target != nil is false.
errorIs(err) == LET target == NilErr IN target # NilErr /\ target = NilErr

isFsNotExist(err) == err # NilErr /\ errorIs(err)

\* isNotExist, in either copy.
isNotExist(build, err) ==
    IF build = "fileutil.go"
    THEN err # NilErr /\ (OsIsNotExist(err) \/ isFsNotExist(err))
    ELSE IF err = NilErr THEN FALSE
         ELSE IF ErrorsIsNotExist(err) THEN TRUE
         ELSE OsIsNotExist(err)

\* Stat: os.Lstat with the error wrapped.
Stat(kind) ==
    LET r == Lstat(kind)
    IN  IF r.err # NilErr THEN [fi |-> NoInfo, err |-> Wrap(r.err)] ELSE r

\* Exists: the error os.Lstat returned is tested as it is.
Exists(build, kind) ==
    LET r == Lstat(kind)
    IN  IF r.err = NilErr THEN [ok |-> TRUE, err |-> NilErr]
        ELSE IF (IF build = "fileutil.go" THEN OsIsNotExist(r.err)
                 ELSE isNotExist(build, r.err))
        THEN [ok |-> FALSE, err |-> NilErr]
        ELSE [ok |-> FALSE, err |-> Wrap(r.err)]

\* IsDir: the error Stat returned, wrapped, is tested.
IsDir(build, kind) ==
    LET r == Stat(kind)
    IN  IF r.err # NilErr
        THEN IF isNotExist(build, r.err)
             THEN [ok |-> FALSE, err |-> NilErr]
             ELSE [ok |-> FALSE, err |-> r.err]
        ELSE [ok |-> r.fi.IsDir, err |-> NilErr]

IsFile(build, kind) ==
    LET r == Stat(kind)
    IN  IF r.err # NilErr
        THEN IF isNotExist(build, r.err)
             THEN [ok |-> FALSE, err |-> NilErr]
             ELSE [ok |-> FALSE, err |-> r.err]
        ELSE [ok |-> r.fi.IsRegular, err |-> NilErr]

\* The tree beneath a directory: what is at each path, a path being the
\* names from the directory down; <<>> is the directory itself.
Names == 1..MaxNames
TreePaths == {<<n>> : n \in Names} \cup {<<n, m>> : n \in Names, m \in Names}
Trees ==
    {t \in [TreePaths -> {"none", "file", "dir"}] :
        \A n \in Names, m \in Names : t[<<n, m>>] # "none" => t[<<n>>] = "dir"}
EmptyTree == [q \in TreePaths |-> "none"]

IsPrefix(a, b) == Len(a) <= Len(b) /\ SubSeq(b, 1, Len(a)) = a

\* os.RemoveAll(path): the entry and all beneath it are removed.
RemoveAll(t, path) == [q \in TreePaths |-> IF IsPrefix(path, q) THEN "none" ELSE t[q]]

\* os.ReadDir(path): the entries sorted by name, or an error when the
\* directory is not there.
ReadDir(t, path) ==
    IF path # <<>> /\ t[path] # "dir"
    THEN [dirs |-> <<>>, err |-> <<"PathError", "ENOENT">>]
    ELSE LET present(n) == Append(path, n) \in TreePaths /\ t[Append(path, n)] # "none"
             F[n \in 0..MaxNames] ==
                 IF n = 0 THEN <<>>
                 ELSE IF present(n) THEN Append(F[n - 1], Append(path, n)) ELSE F[n - 1]
         IN  [dirs |-> F[MaxNames], err |-> NilErr]

\* The function RemoveAllFromDirectoryRecursively passes to WalkDir (lines
\* 98-112), called on path with the error WalkDir reports; the error it
\* makes of that one with %v holds its text only.
WalkFn(t, path, err) ==
    IF err # NilErr THEN [t |-> t, err |-> <<"error accessing path">>]
    ELSE IF path = <<>> THEN [t |-> t, err |-> NilErr]
    ELSE [t |-> RemoveAll(t, path), err |-> NilErr]

\* filepath.walkDir: the function is called on the entry; a directory is then
\* read, the function being called again with the error if it cannot be,
\* and its entries are walked in order until one returns an error.
RECURSIVE walkDir(_, _, _)
RECURSIVE walkEntries(_, _, _)
walkEntries(t, dirs, wasDir) ==
    IF dirs = <<>> THEN [t |-> t, err |-> NilErr]
    ELSE LET r == walkDir(t, Head(dirs), wasDir[Head(dirs)])
         IN  IF r.err # NilErr THEN r ELSE walkEntries(r.t, Tail(dirs), wasDir)

walkDir(t, path, isDir) ==
    LET r1 == WalkFn(t, path, NilErr)
    IN  IF r1.err # NilErr \/ ~isDir THEN r1
        ELSE LET rd == ReadDir(r1.t, path)
                 r2 == IF rd.err # NilErr THEN WalkFn(r1.t, path, rd.err) ELSE r1
             IN  IF r2.err # NilErr THEN r2
                 ELSE walkEntries(r2.t, rd.dirs, [q \in TreePaths |-> r2.t[q] = "dir"])

\* RemoveAllFromDirectoryRecursively(directory), directory being there and
\* a directory: filepath.WalkDir from it.
RemoveAllFromDirectoryRecursively(t) == walkDir(t, <<>>, TRUE)

\* No fileio function has been called yet.
NoFio == [op |-> "none", build |-> "none", kind |-> "none",
          res |-> [ok |-> FALSE, err |-> NilErr], tree |-> EmptyTree, after |-> EmptyTree]

\* ------------------------------------------------------------------- state
VARIABLES
    mu,          \* sync.RWMutex: [writer: the process holding Lock or 0, readers: RLock holders]
    logger,      \* *slog.Logger: an index into heap, 0 is nil
    once,        \* sync.Once: "new", "running" (f executing), "done"
    currentCfg,  \* the last active Config
    heap,        \* the slog.Logger values allocated so far: heap[id] is the handler of logger id
    origin,      \* history: how heap[id] was built: by which call, from which Config
                 \* passed to Init, from which parent by binding which item
    sinks,       \* what has been written to each writer's destination, line by line
    files,       \* the paths of the files opened by SetLogFile, none is ever closed
    pc,          \* each process's position
    call,        \* each process's current call and its arguments: for SetLogFile also
                 \* the file opened and, as history, currentCfg when it was called; for
                 \* a method call whether its receiver is get() or a scoped logger
    cfg,         \* Init's parameter cfg, per process
    l,           \* the local logger pointer: l in Init, get()'s result in a helper
    held,        \* the scoped logger a caller keeps from With/WithGroup, 0 if none
    ret,         \* what the last call returned to the process: "nil", "err", "panic"
    ncalls,      \* the number of calls made so far in a concurrent run
    run,         \* package cli: the activation of Run and of the function that called it
    txt,         \* package text: the last call made and what it returned
    fio          \* package fileio: the last call made, what it was called on (the
                 \* state of the path, the directory tree), what it returned and
                 \* the tree it left

vars == <<mu, logger, once, currentCfg, heap, origin, sinks, files,
          pc, call, cfg, l, held, ret, ncalls, run, txt, fio>>

NoCall == [op |-> "none"]

\* ------------------------------------------------------------ package cli
\* cli.Options, the fields Run's result depends on.
Options(capture, logCommand) == [CaptureOutput |-> capture, LogCommand |-> logCommand]

\* What the command wrote to its standard output and standard error.
Outputs == {"", "out"}

\* How exec.Cmd's CombinedOutput / Run can end: the command succeeded, it
\* ran and failed (having written its output), or it could not be started.
Outcomes ==
    {[err |-> "nil", out |-> o] : o \in Outputs} \cup
    {[err |-> "exit status 1", out |-> o] : o \in Outputs} \cup
    {[err |-> "executable file not found", out |-> ""]}

\* Mutant: a failed command's output is withheld.
RunReturnNothingOnError(opts, res) ==
    IF res.err # "nil"
    THEN [out |-> "", err |-> res.err]
    ELSE [out |-> IF opts.CaptureOutput THEN res.out ELSE "", err |-> "nil"]

\* Run, lines 76-127: what Run returns for the outcome of the command.
RunReturn(opts, res) ==
    IF opts.CaptureOutput
    THEN LET output == res.out
         IN  IF res.err # "nil"
             THEN [out |-> output, err |-> res.err]
             ELSE [out |-> output, err |-> "nil"]
    ELSE IF res.err # "nil"
         THEN [out |-> "", err |-> res.err]
         ELSE [out |-> "", err |-> "nil"]

\* Mutant: the output is returned whether or not Run returned an error.
ExecReturnIgnoresError(r) == r.out

\* Exec, lines 157-162: what Exec returns for what Run returned.
ExecReturn(r) == IF r.err # "nil" THEN "" ELSE r.out

\* ExecWithNativeLog, lines 175-179.
ExecWithNativeLogReturn(r) == IF r.err # "nil" THEN "" ELSE r.out

\* The calls of package cli: the function and the Options it runs with.
\* RunWithDefaults captures (lines 136-139), Exec and ExecScriptFile do not
\* log the command (lines 151-155, 189), ExecWithNativeLog does (lines 169-173).
CliCalls ==
    {[fn |-> "Run", opts |-> Options(c, lc)] : c \in BOOLEAN, lc \in BOOLEAN} \cup
    {[fn |-> "RunWithDefaults", opts |-> Options(TRUE, lc)] : lc \in BOOLEAN} \cup
    {[fn |-> "Exec", opts |-> Options(ro, FALSE)] : ro \in BOOLEAN} \cup
    {[fn |-> "ExecWithNativeLog", opts |-> Options(ro, TRUE)] : ro \in BOOLEAN} \cup
    {[fn |-> "ExecScriptFile", opts |-> Options(ro, FALSE)] : ro \in BOOLEAN}

\* What function fn returns to its caller for what Run returned: the
\* wrappers without an error result return a string alone.
FnReturn(fn, r) ==
    CASE fn \in {"Run", "RunWithDefaults"} -> r
      [] fn \in {"Exec", "ExecScriptFile"} -> [out |-> ExecReturn(r), err |-> "none"]
      [] fn = "ExecWithNativeLog" -> [out |-> ExecWithNativeLogReturn(r), err |-> "none"]

\* No cli function has been called yet.
NoRun == [fn |-> "none", opts |-> Options(FALSE, FALSE), stage |-> "none", n |-> 0,
          res |-> [err |-> "nil", out |-> ""], streamed |-> "",
          result |-> [out |-> "", err |-> "none"]]

\* ----------------------------------------------------------- package text
\* A string is the sequence of its characters.
Chars == {"g", "o"}
Strs == UNION {[1..n -> Chars] : n \in 0..MaxStrLen}
StrLists == UNION {[1..n -> Strs] : n \in 0..MaxListLen}

\* strings.Contains(s, substr)
Contains(s, substr) ==
    \E i \in 1..(Len(s) - Len(substr) + 1) : SubSeq(s, i, i + Len(substr) - 1) = substr

\* text.ListContains: the loop over the slice.
RECURSIVE ListContains(_, _)
ListContains(arguments, arg) ==
    IF arguments = <<>> THEN FALSE
    ELSE IF Contains(Head(arguments), arg) THEN TRUE
    ELSE ListContains(Tail(arguments), arg)

\* No text function has been called yet.
NoText == [op |-> "none", arguments |-> <<>>, arg |-> <<>>, result |-> FALSE]

RECURSIVE SumLen(_, _)
SumLen(f, S) ==
    IF S = {} THEN 0
    ELSE LET x == CHOOSE y \in S : TRUE IN Len(f[x]) + SumLen(f, S \ {x})

TotalLines == SumLen(sinks, SinkNames)

\* The explicit Init calls made and the files opened so far.
Reconfigs == Cardinality({i \in 1..Len(origin) : origin[i].kind = "Init"}) + Len(files)

Roots(kind) == {i \in 1..Len(origin) : origin[i].kind = kind}

\* The state after package initialization, lines 18-30.
TypeInit ==
    /\ mu = [writer |-> 0, readers |-> {}]
    /\ logger = 0
    /\ once = "new"
    /\ currentCfg = ZeroCfg
    /\ heap = <<>>
    /\ origin = <<>>
    /\ sinks = [s \in SinkNames |-> <<>>]
    /\ files = <<>>
    /\ pc = [p \in Procs |-> "idle"]
    /\ call = [p \in Procs |-> NoCall]
    /\ cfg = [p \in Procs |-> ZeroCfg]
    /\ l = [p \in Procs |-> 0]
    /\ held = [p \in Procs |-> 0]
    /\ ret = [p \in Procs |-> "nil"]
    /\ ncalls = 0
    /\ run = NoRun
    /\ txt = NoText
    /\ fio = NoFio

\* Init, lines 105-125: the defaults are filled in, the handler chain is
\* built and wrapped by slog.New, all on the caller's own stack.
InitBuild(p, c, kind) ==
    /\ cfg' = [cfg EXCEPT ![p] = InitDefaults(c)]
    /\ heap' = Append(heap, NewHandler(InitDefaults(c)))
    /\ origin' = Append(origin, [kind |-> kind, arg |-> c, parent |-> 0,
                                 item |-> NoItem, depth |-> 0])
    /\ l' = [l EXCEPT ![p] = Len(heap) + 1]
    /\ pc' = [pc EXCEPT ![p] = "lock"]

\* A caller calls Init(c).
CallInit(p, c) ==
    /\ pc[p] = "idle"
    /\ call' = [call EXCEPT ![p] = [op |-> "Init", cfg |-> c]]
    /\ InitBuild(p, c, "Init")
    /\ UNCHANGED <<mu, logger, once, currentCfg, sinks, files, held, ret>>

\* Mutant: the lock is taken without waiting for its holders.
LockNoExclusion(p) ==
    /\ pc[p] = "lock"
    /\ mu' = [mu EXCEPT !.writer = p]
    /\ pc' = [pc EXCEPT ![p] = "setLogger"]
    /\ UNCHANGED <<logger, once, currentCfg, heap, origin, sinks, files, call, cfg, l, held, ret, ncalls, run, txt, fio>>

\* Init, line 127: mu.Lock().
Lock(p) ==
    /\ pc[p] = "lock"
    /\ mu.writer = 0
    /\ mu.readers = {}
    /\ mu' = [mu EXCEPT !.writer = p]
    /\ pc' = [pc EXCEPT ![p] = "setLogger"]
    /\ UNCHANGED <<logger, once, currentCfg, heap, origin, sinks, files, call, cfg, l, held, ret, ncalls, run, txt, fio>>

\* Mutant: a logger already published is kept (the first call wins).
SetLoggerFirstWins(p) ==
    /\ pc[p] = "setLogger"
    /\ logger' = IF logger = 0 THEN l[p] ELSE logger
    /\ pc' = [pc EXCEPT ![p] = "setCfg"]
    /\ UNCHANGED <<mu, once, currentCfg, heap, origin, sinks, files, call, cfg, l, held, ret, ncalls, run, txt, fio>>

\* Init, line 128: logger = l.
SetLogger(p) ==
    /\ pc[p] = "setLogger"
    /\ logger' = l[p]
    /\ pc' = [pc EXCEPT ![p] = "setCfg"]
    /\ UNCHANGED <<mu, once, currentCfg, heap, origin, sinks, files, call, cfg, l, held, ret, ncalls, run, txt, fio>>

\* Mutant: the writer being replaced is closed if it is a file.
SetCfgClosesOld(p) ==
    /\ pc[p] = "setCfg"
    /\ currentCfg' = cfg[p]
    /\ files' = IF currentCfg.Out.fd > 2
                THEN [files EXCEPT ![currentCfg.Out.fd - 2] = "closed"]
                ELSE files
    /\ pc' = [pc EXCEPT ![p] = "unlock"]
    /\ UNCHANGED <<mu, logger, once, heap, origin, sinks, call, cfg, l, held, ret, ncalls, run, txt, fio>>

\* Mutant: the config is stored as the caller passed it, unset fields unset.
SetCfgAsPassed(p) ==
    /\ pc[p] = "setCfg"
    /\ currentCfg' = origin[l[p]].arg
    /\ pc' = [pc EXCEPT ![p] = "unlock"]
    /\ UNCHANGED <<mu, logger, once, heap, origin, sinks, files, call, cfg, l, held, ret, ncalls, run, txt, fio>>

\* Init, line 130: currentCfg = cfg.
SetCfg(p) ==
    /\ pc[p] = "setCfg"
    /\ currentCfg' = cfg[p]
    /\ pc' = [pc EXCEPT ![p] = "unlock"]
    /\ UNCHANGED <<mu, logger, once, heap, origin, sinks, files, call, cfg, l, held, ret, ncalls, run, txt, fio>>

\* Mutant: Init returns without releasing the lock.
UnlockNoRelease(p) ==
    /\ pc[p] = "unlock"
    /\ cfg' = [cfg EXCEPT ![p] = ZeroCfg]
    /\ l' = [l EXCEPT ![p] = 0]
    /\ IF call[p].op \in {"Init", "SetLogFile"}
       THEN /\ pc' = [pc EXCEPT ![p] = "idle"]
            /\ call' = [call EXCEPT ![p] = NoCall]
            /\ ret' = [ret EXCEPT ![p] = "nil"]
       ELSE /\ pc' = [pc EXCEPT ![p] = "onceDone"]
            /\ UNCHANGED <<call, ret>>
    /\ UNCHANGED <<mu, logger, once, currentCfg, heap, origin, sinks, files, held, ncalls, run, txt, fio>>

\* Init, lines 131-132: mu.Unlock() and return, to the caller of Init, to
\* SetLogFile (which returns nil, line 100) or into once.Do.
Unlock(p) ==
    /\ pc[p] = "unlock"
    /\ mu' = [mu EXCEPT !.writer = 0]
    /\ cfg' = [cfg EXCEPT ![p] = ZeroCfg]
    /\ l' = [l EXCEPT ![p] = 0]
    /\ IF call[p].op \in {"Init", "SetLogFile"}
       THEN /\ pc' = [pc EXCEPT ![p] = "idle"]
            /\ call' = [call EXCEPT ![p] = NoCall]
            /\ ret' = [ret EXCEPT ![p] = "nil"]
       ELSE /\ pc' = [pc EXCEPT ![p] = "onceDone"]
            /\ UNCHANGED <<call, ret>>
    /\ UNCHANGED <<logger, once, currentCfg, heap, origin, sinks, files, held, ncalls, run, txt, fio>>

\* Mutant: the error is noted but SetLogFile goes on with the nil file.
CallSetLogFileNoReturn(p, path) ==
    /\ pc[p] = "idle"
    /\ IF OpenFails(path)
       THEN /\ ret' = [ret EXCEPT ![p] = "err"]
            /\ call' = [call EXCEPT ![p] =
                           [op |-> "SetLogFile", f |-> NilWriter, before |-> currentCfg]]
            /\ UNCHANGED files
       ELSE /\ files' = Append(files, path)
            /\ call' = [call EXCEPT ![p] =
                           [op |-> "SetLogFile", f |-> FileWriter(path, Len(files) + 1),
                            before |-> currentCfg]]
            /\ UNCHANGED ret
    /\ pc' = [pc EXCEPT ![p] = "readCfg"]
    /\ UNCHANGED <<mu, logger, once, currentCfg, heap, origin, sinks, cfg, l, held>>

\* Mutant: on an error the registry is put back as package initialization
\* left it.
CallSetLogFileResetOnError(p, path) ==
    /\ pc[p] = "idle"
    /\ IF OpenFails(path)
       THEN /\ ret' = [ret EXCEPT ![p] = "err"]
            /\ logger' = 0
            /\ currentCfg' = ZeroCfg
            /\ UNCHANGED <<files, call, pc>>
       ELSE /\ files' = Append(files, path)
            /\ call' = [call EXCEPT ![p] =
                           [op |-> "SetLogFile", f |-> FileWriter(path, Len(files) + 1),
                            before |-> currentCfg]]
            /\ pc' = [pc EXCEPT ![p] = "readCfg"]
            /\ UNCHANGED <<ret, logger, currentCfg>>
    /\ UNCHANGED <<mu, once, heap, origin, sinks, cfg, l, held>>

\* SetLogFile, lines 84-87: the file is opened; on an error SetLogFile
\* returns it at once.
CallSetLogFile(p, path) ==
    /\ pc[p] = "idle"
    /\ IF OpenFails(path)
       THEN /\ ret' = [ret EXCEPT ![p] = "err"]
            /\ UNCHANGED <<files, call, pc>>
       ELSE /\ files' = Append(files, path)
            /\ call' = [call EXCEPT ![p] =
                           [op |-> "SetLogFile", f |-> FileWriter(path, Len(files) + 1),
                            before |-> currentCfg]]
            /\ pc' = [pc EXCEPT ![p] = "readCfg"]
            /\ UNCHANGED ret
    /\ UNCHANGED <<mu, logger, once, currentCfg, heap, origin, sinks, cfg, l, held>>

\* What an unlocked read of currentCfg can return: the variable itself, or,
\* while a writer is storing into it (line 130), any mix of old and new fields.
CfgReads ==
    {currentCfg} \cup
    UNION {{Config(a.Level, b.JSON, c.Out, d.Color) :
                a \in {currentCfg, cfg[w]}, b \in {currentCfg, cfg[w]},
                c \in {currentCfg, cfg[w]}, d \in {currentCfg, cfg[w]}} :
           w \in {q \in Procs : pc[q] = "setCfg"}}

\* SetLogFile, lines 90-98: currentCfg is read without the lock, the sink is
\* replaced and Init is entered with the result.
ReadCfg(p) ==
    /\ pc[p] = "readCfg"
    /\ \E cur \in CfgReads : InitBuild(p, SetLogFileCfg(cur, call[p].f), "SetLogFile")
    /\ UNCHANGED <<mu, logger, once, currentCfg, sinks, files, call, held, ret, ncalls, run, txt, fio>>

\* A caller calls Debug, Info, Warn or Error (lines 156-170) with a message
\* and call-site attributes; the helper calls get().
CallEmit(p, level, attrs) ==
    /\ pc[p] = "idle"
    /\ call' = [call EXCEPT ![p] =
                   [op |-> "emit", recv |-> "get", level |-> level, msg |-> <<"msg">>,
                    attrs |-> attrs]]
    /\ pc' = [pc EXCEPT ![p] = "once"]
    /\ UNCHANGED <<mu, logger, once, currentCfg, heap, origin, sinks, files, cfg, l, held, ret>>

\* A caller calls With (lines 145-147) or WithGroup (lines 150-152).
CallWith(p, item) ==
    /\ pc[p] = "idle"
    /\ call' = [call EXCEPT ![p] = [op |-> "with", recv |-> "get", item |-> item]]
    /\ pc' = [pc EXCEPT ![p] = "once"]
    /\ UNCHANGED <<mu, logger, once, currentCfg, heap, origin, sinks, files, cfg, l, held, ret>>

\* Mutant: no barrier, every caller that finds the initialization not yet
\* done runs it.
OnceDoUnguarded(p) ==
    /\ pc[p] = "once"
    /\ IF once # "done"
       THEN /\ once' = "running"
            /\ InitBuild(p, defaultCfg, "lazy")
       ELSE /\ pc' = [pc EXCEPT ![p] = "rlock"]
            /\ UNCHANGED <<once, cfg, heap, origin, l>>
    /\ UNCHANGED <<mu, logger, currentCfg, sinks, files, call, held, ret, ncalls, run, txt, fio>>

\* Mutant: a caller arriving while the initialization runs does not wait.
OnceDoNoWait(p) ==
    /\ pc[p] = "once"
    /\ IF once = "new"
       THEN /\ once' = "running"
            /\ InitBuild(p, defaultCfg, "lazy")
       ELSE /\ pc' = [pc EXCEPT ![p] = "rlock"]
            /\ UNCHANGED <<once, cfg, heap, origin, l>>
    /\ UNCHANGED <<mu, logger, currentCfg, sinks, files, call, held, ret, ncalls, run, txt, fio>>

\* get, lines 136-138: once.Do. The first caller runs Init(defaultCfg); a
\* caller arriving while it runs waits; after it, callers pass.
OnceDo(p) ==
    /\ pc[p] = "once"
    /\ once # "running"
    /\ IF once = "new"
       THEN /\ once' = "running"
            /\ InitBuild(p, defaultCfg, "lazy")
       ELSE /\ pc' = [pc EXCEPT ![p] = "rlock"]
            /\ UNCHANGED <<once, cfg, heap, origin, l>>
    /\ UNCHANGED <<mu, logger, currentCfg, sinks, files, call, held, ret, ncalls, run, txt, fio>>

\* get, line 138: the function passed to once.Do has returned.
OnceDone(p) ==
    /\ pc[p] = "onceDone"
    /\ once' = "done"
    /\ pc' = [pc EXCEPT ![p] = "rlock"]
    /\ UNCHANGED <<mu, logger, currentCfg, heap, origin, sinks, files, call, cfg, l, held, ret, ncalls, run, txt, fio>>

\* get, line 139: mu.RLock().
RLock(p) ==
    /\ pc[p] = "rlock"
    /\ mu.writer = 0
    /\ mu' = [mu EXCEPT !.readers = @ \cup {p}]
    /\ pc' = [pc EXCEPT ![p] = "read"]
    /\ UNCHANGED <<logger, once, currentCfg, heap, origin, sinks, files, call, cfg, l, held, ret, ncalls, run, txt, fio>>

\* get, lines 140-141: return logger, then the deferred mu.RUnlock().
ReadLogger(p) ==
    /\ pc[p] = "read"
    /\ l' = [l EXCEPT ![p] = logger]
    /\ mu' = [mu EXCEPT !.readers = @ \ {p}]
    /\ pc' = [pc EXCEPT ![p] = "use"]
    /\ UNCHANGED <<logger, once, currentCfg, heap, origin, sinks, files, call, cfg, held, ret, ncalls, run, txt, fio>>

\* slog.Logger.Debug/Info/Warn/Error/Log on logger lg: a record below the
\* handler's level is dropped, any other is handled and its line appended
\* to the writer's destination.
LogRecord(lg, level, msg, attrs) ==
    IF Enabled(heap[lg], level)
    THEN LET out == Handle(heap[lg], [level |-> level, msg |-> msg, attrs |-> attrs])
         IN  sinks' = [sinks EXCEPT ![out.w.name] = Append(@, out.line)]
    ELSE UNCHANGED sinks

\* Mutant: the item is bound in the parent's handler too.
DeriveLoggerInPlace(p, lg, item) ==
    /\ heap' = Append([heap EXCEPT ![lg] = Derive(heap[lg], item)], Derive(heap[lg], item))
    /\ origin' = Append(origin, [kind |-> "derive", arg |-> origin[lg].arg, parent |-> lg,
                                 item |-> item, depth |-> origin[lg].depth + 1])
    /\ held' = [held EXCEPT ![p] = Len(heap) + 1]

\* slog.Logger.With / WithGroup on logger lg: a new logger whose handler is
\* the handler's derivation.
DeriveLogger(p, lg, item) ==
    /\ heap' = Append(heap, Derive(heap[lg], item))
    /\ origin' = Append(origin, [kind |-> "derive", arg |-> origin[lg].arg, parent |-> lg,
                                 item |-> item, depth |-> origin[lg].depth + 1])
    /\ held' = [held EXCEPT ![p] = Len(heap) + 1]

\* The method call on get()'s result, get().Info(msg, args...) (lines
\* 156-170), get().With(args...) (line 146), get().WithGroup(name) (line
\* 151), or on a scoped logger. A nil logger would be dereferenced.
Use(p) ==
    /\ pc[p] = "use"
    /\ pc' = [pc EXCEPT ![p] = "idle"]
    /\ call' = [call EXCEPT ![p] = NoCall]
    /\ l' = [l EXCEPT ![p] = 0]
    /\ IF l[p] = 0
       THEN /\ ret' = [ret EXCEPT ![p] = "panic"]
            /\ UNCHANGED <<heap, origin, held, sinks>>
       ELSE /\ ret' = [ret EXCEPT ![p] = "nil"]
            /\ IF call[p].op = "emit"
               THEN /\ LogRecord(l[p], call[p].level, call[p].msg, call[p].attrs)
                    /\ UNCHANGED <<heap, origin, held>>
               ELSE /\ DeriveLogger(p, l[p], call[p].item)
                    /\ UNCHANGED sinks
    /\ UNCHANGED <<mu, logger, once, currentCfg, files, cfg, ncalls, run, txt, fio>>

\* A caller derives from the scoped logger it holds: log.With(...),
\* log.WithGroup(...).
HeldWith(p, item) ==
    /\ pc[p] = "idle"
    /\ held[p] # 0
    /\ l' = [l EXCEPT ![p] = held[p]]
    /\ call' = [call EXCEPT ![p] = [op |-> "with", recv |-> "held", item |-> item]]
    /\ pc' = [pc EXCEPT ![p] = "use"]
    /\ UNCHANGED <<mu, logger, once, currentCfg, heap, origin, sinks, files, cfg, held, ret>>

\* Mutant: the scoped logger looks the global logger up at each call.
HeldLogThroughGlobal(p, level, attrs) ==
    /\ pc[p] = "idle"
    /\ held[p] # 0
    /\ l' = [l EXCEPT ![p] = logger]
    /\ call' = [call EXCEPT ![p] =
                   [op |-> "emit", recv |-> "held", level |-> level, msg |-> <<"msg">>,
                    attrs |-> attrs]]
    /\ pc' = [pc EXCEPT ![p] = "use"]
    /\ UNCHANGED <<mu, logger, once, currentCfg, heap, origin, sinks, files, cfg, held, ret>>

\* A caller emits through the scoped logger it holds: log.Log(ctx, level, msg, args...).
HeldLog(p, level, attrs) ==
    /\ pc[p] = "idle"
    /\ held[p] # 0
    /\ l' = [l EXCEPT ![p] = held[p]]
    /\ call' = [call EXCEPT ![p] =
                   [op |-> "emit", recv |-> "held", level |-> level, msg |-> <<"msg">>,
                    attrs |-> attrs]]
    /\ pc' = [pc EXCEPT ![p] = "use"]
    /\ UNCHANGED <<mu, logger, once, currentCfg, heap, origin, sinks, files, cfg, held, ret>>

\* A caller emits through the logger its scoped logger was derived from,
\* which it still holds: parent.Log(ctx, level, msg, args...).
ParentLog(p, level, attrs) ==
    /\ pc[p] = "idle"
    /\ held[p] # 0
    /\ l' = [l EXCEPT ![p] = origin[held[p]].parent]
    /\ call' = [call EXCEPT ![p] =
                   [op |-> "emit", recv |-> "parent", level |-> level, msg |-> <<"msg">>,
                    attrs |-> attrs]]
    /\ pc' = [pc EXCEPT ![p] = "use"]
    /\ UNCHANGED <<mu, logger, once, currentCfg, heap, origin, sinks, files, cfg, held, ret>>

\* ------------------------------------------------------------------ inputs
HelperLevels == {LevelDebug, LevelInfo, LevelWarn, LevelError}

\* Levels a caller can pass to Logger.Log, between and beyond the named ones.
LogLevels == HelperLevels \cup {LevelInfo - 1, LevelWarn - 1, LevelError - 1, LevelError + 4}

Items == {Attr("a"), Attr("b"), Group("g")}

AllCfgs ==
    {ZeroCfg} \cup
    {Config(lv, js, Buf, co) :
        lv \in {NilLevel} \cup {Leveler(n) : n \in HelperLevels},
        js \in BOOLEAN, co \in BOOLEAN}

\* The configs of the lifecycle runs: the zero Config, colored text at Debug
\* on a caller's writer, JSON at Warn on the default writer with Color set,
\* plain text at Error, JSON on a caller's writer with no level.
SeqCfgs ==
    {ZeroCfg,
     Config(NilLevel, TRUE, Buf, FALSE),
     Config(Leveler(LevelDebug), FALSE, Buf, TRUE),
     Config(Leveler(LevelWarn), TRUE, NilWriter, TRUE),
     Config(Leveler(LevelError), FALSE, Buf, FALSE)}

\* The config of the concurrent runs: colored text at Debug on a caller's
\* writer.
RaceCfgs ==
    {Config(Leveler(LevelDebug), FALSE, Buf, TRUE)}

Paths == GoodPaths \cup BadPaths

\* ------------------------------------------------- concurrent callers
\* Each caller makes any of the calls, MaxCalls calls being made in all.
RaceInit(p) ==
    /\ ncalls < MaxCalls
    /\ ncalls' = ncalls + 1
    /\ UNCHANGED <<run, txt, fio>>
    /\ \E c \in RaceCfgs : CallInit(p, c)

RaceSetLogFile(p) ==
    /\ ncalls < MaxCalls
    /\ ncalls' = ncalls + 1
    /\ UNCHANGED <<run, txt, fio>>
    /\ \E path \in GoodPaths : CallSetLogFile(p, path)

RaceEmit(p) ==
    /\ ncalls < MaxCalls
    /\ ncalls' = ncalls + 1
    /\ UNCHANGED <<run, txt, fio>>
    /\ CallEmit(p, LevelError, <<>>)

RaceWith(p) ==
    /\ ncalls < MaxCalls
    /\ ncalls' = ncalls + 1
    /\ UNCHANGED <<run, txt, fio>>
    /\ CallWith(p, Attr("a"))

Next ==
    \E p \in Procs :
        \/ RaceInit(p)
        \/ RaceSetLogFile(p)
        \/ RaceEmit(p)
        \/ RaceWith(p)
        \/ Lock(p)
        \/ SetLogger(p)
        \/ SetCfg(p)
        \/ Unlock(p)
        \/ ReadCfg(p)
        \/ OnceDo(p)
        \/ OnceDone(p)
        \/ RLock(p)
        \/ ReadLogger(p)
        \/ Use(p)

Spec == TypeInit /\ [][Next]_vars

\* A call in progress goes on: a goroutine that can run its next statement
\* is eventually scheduled, and one waiting for mu or for once.Do is woken
\* once what it waits for is free.
Step(p) ==
    \/ Lock(p)
    \/ SetLogger(p)
    \/ SetCfg(p)
    \/ Unlock(p)
    \/ ReadCfg(p)
    \/ OnceDo(p)
    \/ OnceDone(p)
    \/ RLock(p)
    \/ ReadLogger(p)
    \/ Use(p)

SpecLive == TypeInit /\ [][Next]_vars /\ \A p \in Procs : WF_vars(Step(p))

\* ------------------------------------------- one caller, the lifecycle
\* A single caller reconfigures, emits and takes a scoped logger.
SeqInit ==
    /\ Reconfigs < MaxReconfigs
    /\ \E c \in SeqCfgs : CallInit(1, c)
    /\ UNCHANGED <<ncalls, run, txt, fio>>

SeqSetLogFile ==
    /\ Reconfigs < MaxReconfigs
    /\ \E path \in Paths : CallSetLogFile(1, path)
    /\ UNCHANGED <<ncalls, run, txt, fio>>

SeqEmit ==
    /\ TotalLines < MaxLines
    /\ \E lv \in {LevelInfo, LevelError} : CallEmit(1, lv, <<>>)
    /\ UNCHANGED <<ncalls, run, txt, fio>>

SeqWith ==
    /\ Cardinality(Roots("derive")) < MaxScoped
    /\ CallWith(1, Attr("a"))
    /\ UNCHANGED <<ncalls, run, txt, fio>>

SeqHeldLog ==
    /\ TotalLines < MaxLines
    /\ HeldLog(1, LevelWarn, <<>>)
    /\ UNCHANGED <<ncalls, run, txt, fio>>

NextSeq ==
    \/ SeqInit
    \/ SeqSetLogFile
    \/ SeqEmit
    \/ SeqWith
    \/ SeqHeldLog
    \/ Lock(1)
    \/ SetLogger(1)
    \/ SetCfg(1)
    \/ Unlock(1)
    \/ ReadCfg(1)
    \/ OnceDo(1)
    \/ OnceDone(1)
    \/ RLock(1)
    \/ ReadLogger(1)
    \/ Use(1)

SpecSeq == TypeInit /\ [][NextSeq]_vars

\* --------------------------------------- one caller, the handler chains
\* The registry after a first use and a completed Init(c), for every config c:
\* logger 1 is the lazily built default, logger 2 the one Init(c) published.
InitHandler ==
    \E c \in AllCfgs :
        /\ mu = [writer |-> 0, readers |-> {}]
        /\ logger = 2
        /\ once = "done"
        /\ currentCfg = InitDefaults(c)
        /\ heap = <<NewHandler(InitDefaults(defaultCfg)), NewHandler(InitDefaults(c))>>
        /\ origin = <<[kind |-> "lazy", arg |-> defaultCfg, parent |-> 0,
                       item |-> NoItem, depth |-> 0],
                      [kind |-> "Init", arg |-> c, parent |-> 0,
                       item |-> NoItem, depth |-> 0]>>
        /\ sinks = [s \in SinkNames |-> <<>>]
        /\ files = <<>>
        /\ pc = [p \in Procs |-> "idle"]
        /\ call = [p \in Procs |-> NoCall]
        /\ cfg = [p \in Procs |-> ZeroCfg]
        /\ l = [p \in Procs |-> 0]
        /\ held = [p \in Procs |-> 0]
        /\ ret = [p \in Procs |-> "nil"]
        /\ ncalls = 0
        /\ run = NoRun
        /\ txt = NoText
        /\ fio = NoFio

\* The caller emits at every level and derives with every item, through the
\* helpers and through the scoped loggers it holds.
HandlerEmit ==
    /\ TotalLines < MaxLines
    /\ \E lv \in HelperLevels : CallEmit(1, lv, <<>>)
    /\ UNCHANGED <<ncalls, run, txt, fio>>

HandlerWith ==
    /\ Cardinality(Roots("derive")) < MaxDerived
    /\ \E it \in Items : CallWith(1, it)
    /\ UNCHANGED <<ncalls, run, txt, fio>>

HandlerHeldWith ==
    /\ Cardinality(Roots("derive")) < MaxDerived
    /\ \E it \in Items : HeldWith(1, it)
    /\ UNCHANGED <<ncalls, run, txt, fio>>

HandlerHeldLog ==
    /\ TotalLines < MaxLines
    /\ \E lv \in LogLevels : HeldLog(1, lv, <<Attr("c")>>)
    /\ UNCHANGED <<ncalls, run, txt, fio>>

HandlerParentLog ==
    /\ TotalLines < MaxLines
    /\ ParentLog(1, LevelError, <<Attr("p")>>)
    /\ UNCHANGED <<ncalls, run, txt, fio>>

NextHandler ==
    \/ HandlerEmit
    \/ HandlerWith
    \/ HandlerHeldWith
    \/ HandlerHeldLog
    \/ HandlerParentLog
    \/ OnceDo(1)
    \/ RLock(1)
    \/ ReadLogger(1)
    \/ Use(1)

SpecHandler == InitHandler /\ [][NextHandler]_vars

\* ------------------------------------ concurrent emitters, a fixed config
\* The registry before any helper was called: as package initialization left
\* it, or after one explicit Init(c) that has returned.
InitEmit ==
    /\ \/ /\ logger = 0
          /\ currentCfg = ZeroCfg
          /\ heap = <<>>
          /\ origin = <<>>
       \/ \E c \in RaceCfgs :
              /\ logger = 1
              /\ currentCfg = InitDefaults(c)
              /\ heap = <<NewHandler(InitDefaults(c))>>
              /\ origin = <<[kind |-> "Init", arg |-> c, parent |-> 0,
                             item |-> NoItem, depth |-> 0]>>
    /\ mu = [writer |-> 0, readers |-> {}]
    /\ once = "new"
    /\ sinks = [s \in SinkNames |-> <<>>]
    /\ files = <<>>
    /\ pc = [p \in Procs |-> "idle"]
    /\ call = [p \in Procs |-> NoCall]
    /\ cfg = [p \in Procs |-> ZeroCfg]
    /\ l = [p \in Procs |-> 0]
    /\ held = [p \in Procs |-> 0]
    /\ ret = [p \in Procs |-> "nil"]
    /\ ncalls = 0
    /\ run = NoRun
    /\ txt = NoText
    /\ fio = NoFio

\* The callers only emit, MaxCalls records in all; nobody reconfigures.
NextEmit ==
    \E p \in Procs :
        \/ RaceEmit(p)
        \/ Lock(p)
        \/ SetLogger(p)
        \/ SetCfg(p)
        \/ Unlock(p)
        \/ OnceDo(p)
        \/ OnceDone(p)
        \/ RLock(p)
        \/ ReadLogger(p)
        \/ Use(p)

SpecEmit == InitEmit /\ [][NextEmit]_vars

\* -------------------------------------------------- package cli: Run
\* The caller (process 1) calls a function of package cli; each of them
\* enters Run, whose first statement is logs.WithGroup("cli") (line 53).
CliCall(c) ==
    /\ run.stage \in {"none", "returned"}
    /\ run.n < MaxRuns
    /\ run' = [NoRun EXCEPT !.fn = c.fn, !.opts = c.opts, !.stage = "withGroup",
                            !.n = run.n + 1]
    /\ CallWith(1, Group("cli"))
    /\ UNCHANGED <<ncalls, txt, fio>>

CliEnter == \E c \in CliCalls : CliCall(c)

\* Run, line 53: .With("command", command) on the logger WithGroup returned.
CliWith ==
    /\ run.stage = "withGroup"
    /\ run' = [run EXCEPT !.stage = "with"]
    /\ HeldWith(1, Attr("command"))
    /\ UNCHANGED <<ncalls, txt, fio>>

\* Run, lines 55-61: with LogCommand the command is logged through log.
CliLogCommand ==
    /\ run.stage = "with"
    /\ run.opts.LogCommand
    /\ run' = [run EXCEPT !.stage = "logged"]
    /\ HeldLog(1, LevelInfo, <<Attr("command"), Attr("args"), Attr("dir")>>)
    /\ UNCHANGED <<ncalls, txt, fio>>

\* Run, lines 63-124: the command is run, cmd.CombinedOutput() when
\* capturing and cmd.Run() with the output streamed otherwise, and its
\* outcome logged, a failure by logs.Error and a success by logs.Debug.
CliRunCommand ==
    /\ \/ run.stage = "logged"
       \/ run.stage = "with" /\ ~run.opts.LogCommand
    /\ \E res \in Outcomes :
           /\ run' = [run EXCEPT !.stage = "logResult", !.res = res,
                                 !.streamed = IF run.opts.CaptureOutput THEN "" ELSE res.out]
           /\ IF res.err # "nil"
              THEN CallEmit(1, LevelError,
                            IF run.opts.CaptureOutput
                            THEN <<Attr("args"), Attr("dir"), Attr("err"), Attr("output")>>
                            ELSE <<Attr("args"), Attr("dir"), Attr("err")>>)
              ELSE CallEmit(1, LevelDebug, <<Attr("args"), Attr("dir")>>)
    /\ UNCHANGED <<ncalls, txt, fio>>

\* Run returns (lines 87, 95, 118, 126) and the function that called it
\* returns to the caller.
CliReturn ==
    /\ run.stage = "logResult"
    /\ pc[1] = "idle"
    /\ run' = [run EXCEPT !.stage = "returned",
                          !.result = FnReturn(run.fn, RunReturn(run.opts, run.res))]
    /\ UNCHANGED <<mu, logger, once, currentCfg, heap, origin, sinks, files,
                   pc, call, cfg, l, held, ret, ncalls, txt, fio>>

NextCli ==
    \/ CliEnter
    \/ CliWith
    \/ CliLogCommand
    \/ CliRunCommand
    \/ CliReturn
    \/ Lock(1)
    \/ SetLogger(1)
    \/ SetCfg(1)
    \/ Unlock(1)
    \/ OnceDo(1)
    \/ OnceDone(1)
    \/ RLock(1)
    \/ ReadLogger(1)
    \/ Use(1)

SpecCli == TypeInit /\ [][NextCli]_vars

\* ------------------------------------------------- package text: calls
\* A caller calls text.ListContains with a list of strings and a string; one
\* call is made in a run.
CallListContains ==
    /\ txt.op = "none"
    /\ \E list \in StrLists, val \in Strs :
           txt' = [op |-> "ListContains", arguments |-> list, arg |-> val,
                   result |-> ListContains(list, val)]
    /\ UNCHANGED <<mu, logger, once, currentCfg, heap, origin, sinks, files,
                   pc, call, cfg, l, held, ret, ncalls, run, fio>>

NextText == CallListContains

SpecText == TypeInit /\ [][NextText]_vars

\* ----------------------------------------------- package fileio: calls
\* A caller calls Exists, IsDir or IsFile on a path; one call is made in a run.
CallExists ==
    /\ fio.op = "none"
    /\ \E b \in Builds, k \in PathKinds :
           fio' = [NoFio EXCEPT !.op = "Exists", !.build = b, !.kind = k, !.res = Exists(b, k)]
    /\ UNCHANGED <<mu, logger, once, currentCfg, heap, origin, sinks, files,
                   pc, call, cfg, l, held, ret, ncalls, run, txt>>

CallIsDir ==
    /\ fio.op = "none"
    /\ \E b \in Builds, k \in PathKinds :
           fio' = [NoFio EXCEPT !.op = "IsDir", !.build = b, !.kind = k, !.res = IsDir(b, k)]
    /\ UNCHANGED <<mu, logger, once, currentCfg, heap, origin, sinks, files,
                   pc, call, cfg, l, held, ret, ncalls, run, txt>>

CallIsFile ==
    /\ fio.op = "none"
    /\ \E b \in Builds, k \in PathKinds :
           fio' = [NoFio EXCEPT !.op = "IsFile", !.build = b, !.kind = k, !.res = IsFile(b, k)]
    /\ UNCHANGED <<mu, logger, once, currentCfg, heap, origin, sinks, files,
                   pc, call, cfg, l, held, ret, ncalls, run, txt>>

\* A caller calls RemoveAllFromDirectoryRecursively on a directory.
CallRemoveAllFromDirectoryRecursively ==
    /\ fio.op = "none"
    /\ \E t \in Trees :
           LET r == RemoveAllFromDirectoryRecursively(t)
           IN  fio' = [NoFio EXCEPT !.op = "RemoveAllFromDirectoryRecursively", !.tree = t,
                                   !.after = r.t, !.res = [ok |-> r.err = NilErr, err |-> r.err]]
    /\ UNCHANGED <<mu, logger, once, currentCfg, heap, origin, sinks, files,
                   pc, call, cfg, l, held, ret, ncalls, run, txt>>

NextFile ==
    \/ CallExists
    \/ CallIsDir
    \/ CallIsFile
    \/ CallRemoveAllFromDirectoryRecursively

SpecFile == TypeInit /\ [][NextFile]_vars

\* ================================================================= claims
Explicit(i) == origin[i].kind \in {"Init", "SetLogFile"}

\* The config Init stores for the config c it is passed.
Stored(c) ==
    Config(IF c.Level = NilLevel THEN <<LevelInfo>> ELSE c.Level,
           c.JSON,
           IF c.Out = NilWriter THEN Stdout ELSE c.Out,
           c.Color)

\* The handler chain a stored config d calls for.
ChainFor(d) ==
    LET fmt(t) == [type |-> t, w |-> d.Out, level |-> d.Level, bound |-> <<>>]
    IN  IF d.JSON THEN fmt("json")
        ELSE IF d.Color THEN [type |-> "color", h |-> fmt("text")]
        ELSE fmt("text")

AnsiCodes == {colorReset, colorRed, colorYellow, colorGreen, colorBlue}

\* Every line written so far, to any destination.
Lines == UNION {{sinks[s][k] : k \in 1..Len(sinks[s])} : s \in SinkNames}

\* C1 (as claimed): when an explicit Init or successful SetLogFile has
\* completed before the first get(), that get() performs no default
\* initialization and returns the explicitly configured logger: no lazily
\* built default logger exists and get()'s result is not one. With a single
\* caller, the first logger ever built being an explicit one says that the
\* explicit call completed before the first get().
C1_FirstGetKeepsExplicitInit ==
    (origin # <<>> /\ Explicit(1)) =>
        /\ Roots("lazy") = {}
        /\ \A p \in Procs :
               (pc[p] = "use" /\ l[p] # 0) => origin[l[p]].kind # "lazy"

\* C2: when Init(c) has published (it holds the lock and is about to release
\* it and return), the global logger is the one it built from c, with the
\* handler chain c calls for, and currentCfg is c with a nil Out and a nil
\* Level replaced by the defaults; so after Init(c1)...Init(cn) the registry
\* holds the logger and config of cn.
C2_InitLastCallWins ==
    \A p \in Procs :
        (pc[p] = "unlock" /\ call[p].op = "Init") =>
            /\ currentCfg = Stored(call[p].cfg)
            /\ logger = Len(heap)
            /\ origin[logger].kind = "Init"
            /\ origin[logger].arg = call[p].cfg
            /\ heap[logger] = ChainFor(Stored(call[p].cfg))

\* C2 witness: a second Init, with another config than the first, has published.
C2_Witness ==
    /\ pc[1] = "unlock"
    /\ call[1].op = "Init"
    /\ Cardinality(Roots("Init")) = 2
    /\ \E i \in Roots("Init") : origin[i].arg # call[1].cfg
    /\ call[1].cfg.Out = NilWriter

\* The last two explicit reconfigurations were Init(cfg1), then SetLogFile.
LastExplicit == CHOOSE i \in 1..Len(origin) :
                    Explicit(i) /\ \A j \in 1..Len(origin) : Explicit(j) => j <= i
PrevExplicit == CHOOSE i \in 1..(LastExplicit - 1) :
                    Explicit(i) /\ \A j \in 1..(LastExplicit - 1) : Explicit(j) => j <= i
InitThenSetLogFile ==
    /\ \E i \in 1..Len(origin) : Explicit(i)
    /\ origin[LastExplicit].kind = "SetLogFile"
    /\ \E i \in 1..(LastExplicit - 1) : Explicit(i)
    /\ origin[PrevExplicit].kind = "Init"

\* C3 (as claimed): after Init(cfg1) followed by a successful SetLogFile(path),
\* a record emitted through a package helper reaches the sink if and only if
\* its level is at least cfg1.Level, is rendered in cfg1's format and color,
\* and is appended to the file at path and nowhere else.
C3_HelpersUseCfg1AndFile ==
    [][\A p \in Procs :
          (/\ pc[p] = "use" /\ pc'[p] = "idle"
           /\ call[p].op = "emit" /\ call[p].recv = "get"
           /\ InitThenSetLogFile) =>
              LET cfg1 == Stored(origin[PrevExplicit].arg)
                  path == files[Len(files)]
              IN  /\ \A s \in SinkNames \ {path} : sinks'[s] = sinks[s]
                  /\ IF call[p].level >= cfg1.Level[1]
                     THEN /\ Len(sinks'[path]) = Len(sinks[path]) + 1
                          /\ LET line == sinks'[path][Len(sinks'[path])]
                             IN  /\ line.fmt = (IF cfg1.JSON THEN "json" ELSE "text")
                                 /\ (line.msg[1] \in AnsiCodes) <=> (~cfg1.JSON /\ cfg1.Color)
                     ELSE sinks'[path] = sinks[path]]_vars

C5_OpenErrorLeavesRegistry ==
    [][\A p \in Procs :
          (pc[p] = "idle" /\ ret[p] # "err" /\ ret'[p] = "err") =>
              /\ logger' = logger
              /\ currentCfg' = currentCfg
              /\ heap' = heap
              /\ files' = files
              /\ pc'[p] = "idle"
              /\ call'[p] = NoCall]_vars

\* C5 witness: SetLogFile has returned an error on an initialized registry.
C5_Witness ==
    /\ ret[1] = "err"
    /\ pc[1] = "idle"
    /\ logger # 0
    /\ currentCfg.JSON

NoExplicit == \A i \in 1..Len(origin) : ~Explicit(i)

\* C6: the default initialization runs at most once whatever the callers
\* do; and as long as no explicit Init or SetLogFile was called, every
\* caller whose get() has returned holds the one default logger, the only
\* one ever built lazily.
C6_LazyInitOnce ==
    /\ Cardinality(Roots("lazy")) <= 1
    /\ NoExplicit =>
           \A p \in Procs :
               (pc[p] = "use" /\ call[p].recv = "get") =>
                   /\ l[p] # 0
                   /\ Roots("lazy") = {l[p]}
                   /\ heap[l[p]] = ChainFor(defaultCfg)

\* C6 witness: two callers, each in its first call, hold get()'s result at
\* the same time, and it is the same logger.
C6_Witness ==
    /\ NoExplicit
    /\ ncalls = 2
    /\ pc[1] = "use" /\ call[1].recv = "get"
    /\ pc[2] = "use" /\ call[2].recv = "get"
    /\ l[1] = l[2]
    /\ l[1] # 0

\* C7: a record emitted at level L in {Debug, Info, Warn, Error} through a
\* logger whose chain Init built with Level = T in the same set is appended
\* to the config's sink if L >= T and leaves every sink as it was if L < T,
\* whichever handler (text, colorized text, JSON) the config selects.
C7_ReachesSinkIffAtLeastThreshold ==
    [][\A p \in Procs :
          (/\ pc[p] = "use" /\ pc'[p] = "idle"
           /\ call[p].op = "emit" /\ l[p] # 0
           /\ call[p].level \in HelperLevels
           /\ origin[l[p]].arg.Level # NilLevel) =>
              LET c == origin[l[p]].arg
                  dest == Stored(c).Out.name
              IN  IF call[p].level >= c.Level[1]
                  THEN /\ Len(sinks'[dest]) = Len(sinks[dest]) + 1
                       /\ sinks'[dest][Len(sinks'[dest])].level = call[p].level
                       /\ \A s \in SinkNames \ {dest} : sinks'[s] = sinks[s]
                  ELSE sinks' = sinks]_vars

\* C7 witness: a record at the threshold itself, Warn, has reached the sink
\* of a JSON logger.
C7_Witness ==
    /\ origin[2].arg.Level = <<LevelWarn>>
    /\ origin[2].arg.JSON
    /\ sinks["buf"] # <<>>
    /\ sinks["buf"][1].level = LevelWarn

\* C8: the chain of every logger Init built is the JSON formatter when JSON
\* is set, the text formatter inside the color decorator when JSON is not
\* set and Color is, the bare text formatter otherwise; and a line written
\* in the JSON format holds no ANSI code, whatever Color is.
C8_HandlerSelection ==
    /\ \A i \in 1..Len(heap) :
           origin[i].depth = 0 =>
               LET c == origin[i].arg
               IN  /\ heap[i].type = "json" <=> c.JSON
                   /\ heap[i].type = "color" <=> (~c.JSON /\ c.Color)
                   /\ heap[i].type = "color" => heap[i].h.type = "text"
                   /\ heap[i].type = "text" <=> (~c.JSON /\ ~c.Color)
    /\ origin[2].arg.JSON =>
           \A line \in Lines :
               /\ line.fmt = "json"
               /\ \A k \in 1..Len(line.msg) : line.msg[k] \notin AnsiCodes

\* C8 witness: a logger configured with JSON and Color has written a line.
C8_Witness ==
    /\ origin[2].arg.JSON
    /\ origin[2].arg.Color
    /\ Lines # {}

\* The color band of a level.
Band(L) ==
    CASE L >= LevelError -> colorRed
      [] L >= LevelWarn /\ L < LevelError -> colorYellow
      [] L >= LevelInfo /\ L < LevelWarn -> colorGreen
      [] L < LevelInfo -> colorBlue

ColoredText == ~origin[2].arg.JSON /\ origin[2].arg.Color

\* C9: every line written through the color decorator carries the message
\* <color><original message><reset>, one prefix and one suffix, the color
\* being red from Error up, yellow from Warn up to Error, green from Info up
\* to Warn and blue below Info.
C9_ColorBands ==
    ColoredText =>
        \A line \in Lines : line.msg = <<Band(line.level), "msg", colorReset>>

\* C9 witness: lines of a level between Info and Warn and of a level below
\* Info were written through the color decorator.
C9_Witness ==
    /\ ColoredText
    /\ \E line \in Lines : line.level = LevelWarn - 1 /\ line.msg[1] = colorGreen

\* C10: in a registry configured for colorized text, the handler of every
\* derived logger is a colorHandler around the derivation of its parent's
\* inner handler (the text formatter with the item bound after the parent's),
\* and a line written through a derived logger carries exactly one color
\* prefix and one reset suffix around the message.
C10_ColorSurvivesDerivation ==
    ColoredText =>
        /\ \A i \in 1..Len(heap) :
               origin[i].kind = "derive" =>
                   /\ heap[i].type = "color"
                   /\ heap[i].h.type = "text"
                   /\ heap[i].h = [heap[origin[i].parent].h EXCEPT
                                      !.bound = Append(@, origin[i].item)]
                   /\ Len(heap[i].h.bound) = origin[i].depth
        /\ \A line \in Lines :
               line.attrs # <<>> =>
                   /\ Len(line.msg) = 3
                   /\ line.msg[1] \in AnsiCodes \ {colorReset}
                   /\ line.msg[2] = "msg"
                   /\ line.msg[3] = colorReset

\* C10 witness: a line was written through a logger derived twice, with
\* With and then WithGroup, from a colorized text logger.
C10_Witness ==
    /\ ColoredText
    /\ \E i \in 1..Len(heap) :
           /\ origin[i].depth = 2
           /\ heap[i].h.bound = <<Attr("a"), Group("g")>>
    /\ \E line \in Lines : line.attrs = <<<<"a">>, <<"g", "c">>>>

\* The items bound on the way from the logger Init built down to logger i,
\* in the order they were bound.
RECURSIVE PathItems(_)
PathItems(i) ==
    IF origin[i].kind = "derive"
    THEN Append(PathItems(origin[i].parent), origin[i].item)
    ELSE <<>>

\* The attributes among a sequence of bound items.
AttrCount(items) == Cardinality({k \in 1..Len(items) : ~items[k].group})

\* Process p returns from a method call op on the logger it holds.
MethodReturns(p, op) ==
    /\ pc[p] = "use" /\ pc'[p] = "idle"
    /\ call[p].op = op
    /\ l[p] # 0

C12_AttrsInInsertionOrder ==
    [][\A p \in Procs :
          MethodReturns(p, "emit") =>
              \A s \in SinkNames :
                  sinks'[s] # sinks[s] =>
                      sinks'[s][Len(sinks'[s])].attrs =
                          Qualify(PathItems(l[p]) \o call[p].attrs, <<>>)]_vars

\* C12 witness: a colorized text logger derived with a and then b has written
\* a record with the call-site attribute c.
C12_Witness ==
    /\ ColoredText
    /\ \E line \in Lines : line.attrs = <<<<"a">>, <<"b">>, <<"c">>>>

\* C12 witness of a key bound twice, on a JSON logger.
C12_WitnessTwice ==
    /\ origin[2].arg.JSON
    /\ \E line \in Lines : line.attrs = <<<<"a">>, <<"a">>, <<"c">>>>

\* The helper calls that have returned, when helpers are all that is called.
FinishedEmits == ncalls - Cardinality({p \in Procs : pc[p] # "idle"})

\* The config the callers fixed: the one passed to Init, or the default.
FixedCfg == IF Roots("Init") = {} THEN defaultCfg ELSE Stored(origin[1].arg)

\* C13 (as claimed): with the configuration fixed before the callers start
\* (by an Init that has returned, or left at the default) and only Error
\* records emitted, which every level here admits, the configuration's sink
\* holds exactly one line per helper call that has returned, each the whole
\* rendering of one record, and no line is anywhere else.
C13_EveryRecordWholeInTheSink ==
    LET dest == FixedCfg.Out.name
        whole == Handle(ChainFor(FixedCfg),
                        [level |-> LevelError, msg |-> <<"msg">>, attrs |-> <<>>]).line
    IN  /\ Len(sinks[dest]) = FinishedEmits
        /\ \A k \in 1..Len(sinks[dest]) : sinks[dest][k] = whole
        /\ \A s \in SinkNames \ {dest} : sinks[s] = <<>>

\* C14: logger and currentCfg are written only by the holder of the
\* exclusive lock, which no reader shares; whenever no writer holds the lock
\* the registry is either untouched (nil logger, zero Config) or the global
\* logger is the one Init built for currentCfg, chain and all; and the logger
\* get() returned to a caller is one some Init built and has published (it
\* is past its store to logger), its chain the one that Init's config calls
\* for.
C14_SwitchIsAtomic ==
    /\ \A p \in Procs :
           pc[p] \in {"setLogger", "setCfg", "unlock"} =>
               /\ mu.writer = p
               /\ mu.readers = {}
    /\ mu.writer = 0 =>
           \/ logger = 0 /\ currentCfg = ZeroCfg
           \/ /\ logger # 0
              /\ origin[logger].depth = 0
              /\ currentCfg = Stored(origin[logger].arg)
              /\ heap[logger] = ChainFor(currentCfg)
    /\ \A p \in Procs :
           (pc[p] = "use" /\ call[p].recv = "get") =>
               /\ l[p] # 0
               /\ origin[l[p]].depth = 0
               /\ heap[l[p]] = ChainFor(Stored(origin[l[p]].arg))
               /\ \A q \in Procs : pc[q] \in {"lock", "setLogger"} => l[q] # l[p]

\* C14 witness: a caller holds the logger get() returned while a writer is
\* in the middle of a switch: it has replaced logger, not yet currentCfg.
C14_Witness ==
    /\ pc[1] = "use" /\ call[1].recv = "get"
    /\ pc[2] = "setCfg"
    /\ mu.writer = 2
    /\ l[1] # logger
    /\ currentCfg # cfg[2]

\* C15: under fair scheduling every call in progress returns, whatever the
\* other callers do: a helper, With or WithGroup call, the Init run inside
\* once.Do included, an explicit Init and a SetLogFile.
C15_EveryCallReturns ==
    \A p \in Procs : (pc[p] # "idle") ~> (pc[p] = "idle")

\* C15 witness: the Init inside once.Do waits for the write lock, which an
\* explicit Init holds, while it keeps the barrier closed.
C15_Witness ==
    /\ once = "running"
    /\ \E p \in Procs :
           /\ pc[p] = "lock" /\ call[p].op = "emit"
           /\ mu.writer \notin {0, p}
           /\ call[mu.writer].op = "Init"

\* The registry's lifecycle state.
Lifecycle ==
    IF logger = 0 THEN "Uninitialized"
    ELSE IF Cardinality({i \in 1..Len(origin) : origin[i].depth = 0}) = 1
         THEN "Initialized"
         ELSE "Reinitialized"

\* C16: no step makes the global logger nil again or puts the zero Config
\* back once a logger was published, the one-time barrier never reopens,
\* and in every state a caller that is not inside a call can call Init with
\* any config and SetLogFile with any path.
C16_NoTerminalState ==
    /\ [](\A p \in Procs :
             pc[p] = "idle" =>
                 /\ \A c \in SeqCfgs : ENABLED CallInit(p, c)
                 /\ \A path \in Paths : ENABLED CallSetLogFile(p, path))
    /\ [][/\ logger # 0 => logger' # 0
          /\ currentCfg # ZeroCfg => currentCfg' # ZeroCfg
          /\ (logger # 0 /\ mu.writer = 0) => currentCfg # ZeroCfg
          /\ once # "new" => once' # "new"
          /\ Lifecycle # "Uninitialized" => Lifecycle' # "Uninitialized"]_vars

\* C16 witness: the registry was initialized lazily, then by Init, then by a
\* successful SetLogFile, which has returned.
C16_Witness ==
    /\ pc[1] = "idle"
    /\ Roots("lazy") # {} /\ Roots("Init") # {} /\ Roots("SetLogFile") # {}
    /\ logger = Len(heap)
    /\ origin[logger].kind = "SetLogFile"
    /\ Lifecycle = "Reinitialized"

\* The formatter of a handler chain.
Formatter(h) == IF h.type = "color" THEN h.h ELSE h

\* C17: for every config c, the zero Config included, the logger Init(c)
\* builds filters at Info when c.Level is nil and at c.Level otherwise,
\* writes to standard output when c.Out is nil and to c.Out otherwise, never
\* to a nil writer, and formats as text when c.JSON is false; when Init(c)
\* has published, currentCfg holds the same level and writer, and the logger is
\* not nil; and no call ends in a panic.
C17_UnsetFieldsDefault ==
    /\ \A i \in Roots("Init") :
           LET c == origin[i].arg
               f == Formatter(heap[i])
           IN  /\ f.level = (IF c.Level = NilLevel THEN <<LevelInfo>> ELSE c.Level)
               /\ f.w = (IF c.Out = NilWriter THEN Stdout ELSE c.Out)
               /\ f.w # NilWriter
               /\ ~c.JSON => f.type = "text"
               /\ c.JSON => f.type = "json"
    /\ \A p \in Procs :
           (pc[p] = "unlock" /\ call[p].op = "Init") =>
               LET c == call[p].cfg
               IN  /\ logger # 0
                   /\ currentCfg.Level = (IF c.Level = NilLevel THEN <<LevelInfo>> ELSE c.Level)
                   /\ currentCfg.Out = (IF c.Out = NilWriter THEN Stdout ELSE c.Out)
                   /\ currentCfg.JSON = c.JSON
    /\ \A p \in Procs : ret[p] # "panic"

\* C17 witness: Init(Config{}) has returned and a record emitted at Info
\* through its logger is on standard output, as text.
C17_Witness ==
    /\ pc[1] = "idle"
    /\ logger # 0
    /\ origin[logger].kind = "Init"
    /\ origin[logger].arg = ZeroCfg
    /\ sinks["stdout"] # <<>>
    /\ sinks["stdout"][1].fmt = "text"
    /\ sinks["stdout"][1].level = LevelInfo

\* The command of the last cli call failed.
Failed == run.res.err # "nil"

\* C18: Exec and ExecWithNativeLog return the empty string when the command
\* failed, with returnOutput set and not set and whatever the command wrote,
\* and when returnOutput is not set; they return the combined output when
\* the command succeeded and returnOutput is set.
C18_ExecEmptyOnFailure ==
    (run.stage = "returned" /\ run.fn \in {"Exec", "ExecWithNativeLog"}) =>
        /\ Failed => run.result.out = ""
        /\ ~run.opts.CaptureOutput => run.result.out = ""
        /\ (~Failed /\ run.opts.CaptureOutput) => run.result.out = run.res.out

\* C18 witness: Exec with returnOutput set has returned the empty string for
\* a command that failed after writing output.
C18_Witness ==
    /\ run.stage = "returned"
    /\ run.fn = "Exec"
    /\ run.opts.CaptureOutput
    /\ run.res = [err |-> "exit status 1", out |-> "out"]
    /\ run.result.out = ""

\* C19: Run returns the empty string when CaptureOutput is false, the command
\* having succeeded or failed, and the command's combined output when
\* CaptureOutput is true, also when the command failed; and the error it
\* returns is nil exactly when the command succeeded.
C19_RunReturnsOutputIffCapturing ==
    (run.stage = "returned" /\ run.fn = "Run") =>
        /\ ~run.opts.CaptureOutput => run.result.out = ""
        /\ run.opts.CaptureOutput => run.result.out = run.res.out
        /\ run.result.err = "nil" <=> ~Failed
        /\ run.result.err = run.res.err

\* C19 witness: Run with CaptureOutput has returned the output of a command
\* that failed, and the error.
C19_Witness ==
    /\ run.stage = "returned"
    /\ run.fn = "Run"
    /\ run.opts.CaptureOutput
    /\ run.res = [err |-> "exit status 1", out |-> "out"]
    /\ run.result = [out |-> "out", err |-> "exit status 1"]

\* C20 (as claimed): ListContains(list, val) is true exactly when some
\* element of list equals val.
C20_ListContainsIsMembership ==
    txt.op = "ListContains" =>
        (txt.result <=> \E i \in 1..Len(txt.arguments) : txt.arguments[i] = txt.arg)

\* C22 (as claimed): a root handler chain is built (by Init, for its caller,
\* for SetLogFile or inside once.Do) only by the holder of the exclusive
\* lock, SetLogFile reads currentCfg only while it holds the exclusive lock,
\* and get() reads logger only while it holds the shared lock.
C22_WritersWorkUnderTheLock ==
    [][\A p \in Procs :
          /\ (/\ Len(heap') = Len(heap) + 1
              /\ origin'[Len(heap')].depth = 0
              /\ l'[p] = Len(heap')) => mu.writer = p
          /\ (pc[p] = "readCfg" /\ pc'[p] = "lock") => mu.writer = p
          /\ (pc[p] = "read" /\ pc'[p] = "use") => p \in mu.readers]_vars

\* C23 (as claimed): when a SetLogFile stores its configuration, the Level,
\* JSON and Color it stores are those of the configuration active just
\* before the store (the defaults when none was ever stored), whatever Init
\* calls ran since SetLogFile was called.
C23_SetLogFileKeepsActiveFields ==
    [][\A p \in Procs :
          (pc[p] = "setCfg" /\ pc'[p] = "unlock" /\ call[p].op = "SetLogFile") =>
              LET active == IF currentCfg = ZeroCfg THEN defaultCfg ELSE currentCfg
              IN  /\ currentCfg'.Level = active.Level
                  /\ currentCfg'.JSON = active.JSON
                  /\ currentCfg'.Color = active.Color]_vars

\* The files of the open-file table the registry's config writes to.
Reachable == {k \in 1..Len(files) : currentCfg.Out = FileWriter(files[k], k)}

\* C24: no step of Init or SetLogFile takes a file out of the table of files
\* the package has opened; each successful SetLogFile adds one, so after k of
\* them k files are open, of which the registry reaches at most one, the
\* last one opened once that SetLogFile has returned.
C24_OldSinksStayOpen ==
    /\ [](/\ Len(files) = Cardinality(Roots("SetLogFile"))
                          + Cardinality({p \in Procs : pc[p] = "readCfg"})
          /\ Cardinality(Reachable) <= 1
          /\ \A k \in 1..Len(files) : files[k] \in GoodPaths)
    /\ [][/\ Len(files') >= Len(files)
          /\ \A k \in 1..Len(files) : files'[k] = files[k]]_vars

\* C24 witness: two SetLogFile calls have succeeded and returned; both files
\* are open and the registry writes to the second.
C24_Witness ==
    /\ pc[1] = "idle"
    /\ Len(files) = 2
    /\ Cardinality(Roots("SetLogFile")) = 2
    /\ Reachable = {2}

\* C25: the registry's config is the zero Config as long as no Init has
\* completed and has a non-nil Out and a non-nil Level ever after, also after
\* Init(Config{}); so the config SetLogFile hands to Init is defaultCfg with
\* the file as Out when no Init has completed, and the last stored config
\* with the file as Out otherwise.
C25_FallbackOnlyBeforeAnyInit ==
    /\ [](IF logger = 0
          THEN currentCfg = ZeroCfg
          ELSE mu.writer = 0 =>
                   currentCfg.Out # NilWriter /\ currentCfg.Level # NilLevel)
    /\ [][\A p \in Procs :
             (pc[p] = "readCfg" /\ pc'[p] = "lock") =>
                 origin'[Len(heap')].arg =
                     [(IF logger = 0 THEN defaultCfg ELSE currentCfg)
                          EXCEPT !.Out = call[p].f]]_vars

\* C25 witness: SetLogFile, called after Init(Config{}) and nothing else, has
\* read a config whose Out and Level are set.
C25_Witness ==
    /\ pc[1] = "lock"
    /\ call[1].op = "SetLogFile"
    /\ Len(origin) = 2
    /\ origin[1].kind = "Init"
    /\ origin[1].arg = ZeroCfg
    /\ call[1].before = defaultCfg

\* The root logger a logger was derived from.
RECURSIVE RootOf(_)
RootOf(i) == IF origin[i].kind = "derive" THEN RootOf(origin[i].parent) ELSE i

\* C26: a record emitted through a scoped logger is filtered with the level
\* and written to the sink, in the format, of the config of the Init that
\* built the logger it was derived from, whatever Init and SetLogFile calls
\* were made since; a record emitted through a helper goes through the
\* global logger of that moment.
C26_ScopedLoggerKeepsItsChain ==
    [][\A p \in Procs :
          /\ (MethodReturns(p, "emit") /\ call[p].recv = "held") =>
                 LET old == Stored(origin[RootOf(held[p])].arg)
                     dest == old.Out.name
                 IN  /\ \A s \in SinkNames \ {dest} : sinks'[s] = sinks[s]
                     /\ IF call[p].level >= old.Level[1]
                        THEN /\ Len(sinks'[dest]) = Len(sinks[dest]) + 1
                             /\ sinks'[dest][Len(sinks'[dest])].fmt =
                                    (IF old.JSON THEN "json" ELSE "text")
                        ELSE sinks'[dest] = sinks[dest]
          /\ (pc[p] = "read" /\ pc'[p] = "use") => l'[p] = logger]_vars

\* C26 witness: a scoped logger derived from the default logger has written
\* to standard output after Init published a logger that writes elsewhere.
C26_Witness ==
    /\ held[1] # 0
    /\ origin[RootOf(held[1])].kind = "lazy"
    /\ logger # 0
    /\ origin[logger].kind = "Init"
    /\ currentCfg.Out = Buf
    /\ sinks["buf"] = <<>>
    /\ sinks["stdout"] # <<>>
    /\ sinks["stdout"][1].attrs = <<<<"a">>>>

\* C27: no caller gets a nil logger from get(): when get() has returned to a
\* helper, With or WithGroup, the logger it holds is not nil, no call has
\* ended in a nil dereference, and a caller is past the one-time barrier only
\* when a logger has been published.
C27_GetNeverNil ==
    /\ \A p \in Procs :
           /\ (pc[p] = "use" /\ call[p].recv = "get") => l[p] # 0
           /\ pc[p] \in {"rlock", "read", "use"} => logger # 0
           /\ ret[p] # "panic"
    /\ once = "done" => logger # 0

\* C27 witness: a caller waits at the one-time barrier while another
\* caller's default initialization has not yet published its logger.
C27_Witness ==
    /\ once = "running"
    /\ logger = 0
    /\ pc[1] \in {"lock", "setLogger"}
    /\ pc[2] = "once"

\* The derivation of handler h with a sequence of items, one after the other.
RECURSIVE DeriveAll(_, _)
DeriveAll(h, items) ==
    IF items = <<>> THEN h ELSE DeriveAll(Derive(h, Head(items)), Tail(items))

\* The chain logger i would have, had the Init its chain comes from been
\* passed the same config with Color the other way.
Twin(i) ==
    LET c == origin[RootOf(i)].arg
    IN  DeriveAll(NewHandler(InitDefaults([c EXCEPT !.Color = ~c.Color])), PathItems(i))

\* The record process p is emitting.
Rec(p) == [level |-> call[p].level, msg |-> call[p].msg, attrs |-> call[p].attrs]

\* The sinks a step has appended to.
Written == {s \in SinkNames : sinks'[s] # sinks[s]}

\* C28: for a text config, a record is written through the logger exactly
\* when the logger of the same config with Color the other way would let it
\* through; the two write to the same sink, and lines of the same level and
\* attributes, the colored message being the plain one between the color
\* code of the level and the reset code.
C28_ColorChangesRenderingOnly ==
    [][\A p \in Procs :
          (MethodReturns(p, "emit") /\ ~origin[RootOf(l[p])].arg.JSON) =>
              LET mine == heap[l[p]]
                  twin == Twin(l[p])
                  colored == IF mine.type = "color" THEN mine ELSE twin
                  plain == IF mine.type = "color" THEN twin ELSE mine
                  c == Handle(colored, Rec(p))
                  q == Handle(plain, Rec(p))
              IN  /\ colored.type = "color" /\ plain.type = "text"
                  /\ Enabled(colored, call[p].level) <=> Enabled(plain, call[p].level)
                  /\ Written # {} <=> Enabled(twin, call[p].level)
                  /\ c.w = q.w
                  /\ c.line = [q.line EXCEPT
                                  !.msg = <<Band(call[p].level)>> \o q.line.msg \o <<colorReset>>]
                  /\ \A s \in Written :
                         /\ s = c.w.name
                         /\ sinks'[s][Len(sinks'[s])] = Handle(mine, Rec(p)).line]_vars

\* C28 witness: a colorized text logger with level Error has written a record
\* at Error, in red.
C28_Witness ==
    /\ ColoredText
    /\ origin[2].arg.Level = <<LevelError>>
    /\ \E line \in Lines : line.level = LevelError /\ line.msg[1] = colorRed

C21_MissingPathIsFalseNil ==
    fio.op \in {"Exists", "IsDir", "IsFile"} =>
        /\ fio.kind = "missing" => fio.res = [ok |-> FALSE, err |-> NilErr]
        /\ fio.res.err # NilErr => fio.kind \in {"denied", "notdir"}

\* C30 (as claimed): RemoveAllFromDirectoryRecursively leaves nothing beneath
\* the directory and returns nil, every removal succeeding.
C30_RemovesEverythingReturnsNil ==
    fio.op = "RemoveAllFromDirectoryRecursively" =>
        /\ fio.after = EmptyTree
        /\ fio.res.err = NilErr

====
